---- MODULE Spec2Model ----
(***************************************************************************)
(* A model of the decode CLI (vickydecodes/decode).                        *)
(*                                                                         *)
(*   Spec        the command dispatcher's filesystem and process commands  *)
(*               (-go, -backend, -folders, -files, -git, -env, init, -p,   *)
(*               -plugin, help), run one invocation after another on one   *)
(*               working directory.                                        *)
(*   SpecNav     the interactive navigator behind -explorer, -terminal     *)
(*               and -nav, on a disk other processes change.               *)
(*   SpecDetect  the active-path detector.                                 *)
(*   SpecTerm    -term, which calls the detector.                          *)
(*                                                                         *)
(* Strings are TLA+ strings; TLC evaluates Len, SubSeq and \o on them, so  *)
(* the string functions of the code (startsWith, replace, split, join,     *)
(* toLowerCase, includes, trim) are computed character by character.       *)
(***************************************************************************)
EXTENDS Integers, Sequences, FiniteSets, TLC

VARIABLES
    fs,        \* the working directory: path -> entry
    preFs,     \* fs as it was when the last invocation started
    argv,      \* process.argv.slice(2) of the last invocation
    procs,     \* external commands the last invocation ran, with their outcome
    out,       \* console lines the last invocation printed through log/success/warn/err
    exitCode,  \* exit code of the last invocation (-1: none has run yet)
    repeat,    \* the last invocation had the same argv as the one before it
    runs,      \* number of invocations so far
    installFs, \* the directory the CLI is installed in (__dirname): path -> entry
    variant,   \* the entry file the last invocation ran: "part_001" (v3.0) or "index.js"
    \* the interactive navigator (stepNavigator)
    tree,            \* the disk under D:\ as it is now: path -> kind
    navPc,           \* "start", "prompt" (suspended in inquirer.prompt), "done", "crashed"
    currentPath,     \* <<>> while no path has been entered (null)
    currentChoices,  \* the directories offered at the prompt
    actionCalls,     \* the folders the caller-supplied action was invoked with
    lastEvent,       \* what happened last: a selection of the user, or "fs"
    prevPath,        \* currentPath before the last selection
    entry,           \* where the last descent was made from, and what was offered there
    steps,           \* selections made so far
    changes,         \* changes other processes made to the disk so far
    listed,          \* the directories the navigator's last step called readdirSync on
    \* the active-path detector
    disk,      \* what each configured root holds: root index -> listing
    dpc,       \* "ready", then "mapped" (mapTitleToPath ran), "detected" or "term"
    dIn,       \* the inputs of the call: the title, or the results of the two probes
    dOut       \* what the call returned, and whether it raised

dvars == <<fs, preFs, argv, procs, out, exitCode, repeat, runs, installFs, variant>>
nvars == <<tree, navPc, currentPath, currentChoices, actionCalls, lastEvent,
           prevPath, entry, steps, changes, listed>>
tvars == <<disk, dpc, dIn, dOut>>
vars == <<dvars, nvars, tvars>>

(***************************************************************************)
(* Bounds.                                                                 *)
(***************************************************************************)
MaxRuns == 2      \* invocations in one session
MaxNames == 2     \* names given to -folders / -files
MaxExit == 1      \* largest exit code a child returns
MaxSteps == 4     \* selections in one navigator run
MaxChanges == 1   \* changes other processes make to the disk during one navigator run
MaxPerRoot == 2   \* entries of a configured root besides the nested roots

(***************************************************************************)
(* The working directory.  A path is the sequence of its components below  *)
(* cwd; <<>> is cwd itself.                                                *)
(***************************************************************************)
Names == {"a.txt", "b.txt"}
McrsDirs == {"models", "controllers", "routes", "services"}
CliName == "x"
CliFolder == CliName \o "-cli"
PluginNames == {"hello", "missing"}
PluginFile(n) == <<"plugins", n \o ".js">>
Cwd == "C:\\work"
InstallDir == "C:\\decode"

TopLevel == Names \cup McrsDirs \cup
            {"src", ".git", ".gitignore", ".env", ".env.example",
             "pnpm-lock.yaml", "yarn.lock", CliFolder, "plugins"}
Paths == {<<n>> : n \in TopLevel} \cup
         {<<"src", "server.js">>,
          <<CliFolder, "package.json">>, <<CliFolder, "index.js">>} \cup
         {PluginFile(n) : n \in PluginNames}
\* the paths looked at below __dirname
InstallPaths == {<<"plugins">>} \cup {PluginFile(n) : n \in PluginNames}

NoEnt == [kind |-> "none", content |-> ""]
DirEnt == [kind |-> "dir", content |-> ""]
FileEnt(c) == [kind |-> "file", content |-> c]

UserText == "user content"
ServerText == "import express from \"express\"; ..."
GitignoreText == "node_modules\n.env\ndist\n"
EnvText == "PORT=3000\nNODE_ENV=development\n"
PkgText(n) == "{ \"name\": \"" \o n \o "\", ... }"
EngineText(n) == "#!/usr/bin/env node ... const CLI = \"" \o n \o "\"; ..."

Parent(p) == SubSeq(p, 1, Len(p) - 1)
Prefixes(p) == {SubSeq(p, 1, k) : k \in 1..Len(p)}

ExistsSync(f, p) == p = <<>> \/ f[p].kind # "none"
IsDirectory(f, p) == p = <<>> \/ f[p].kind = "dir"

\* fs.mkdirSync(p, { recursive: true })
MkdirRecursive(f, p) ==
    IF \E q \in Prefixes(p) : f[q].kind = "file"
    THEN [ok |-> FALSE, fs |-> f,
          error |-> IF f[p].kind = "file" THEN "EEXIST" ELSE "ENOTDIR"]
    ELSE [ok |-> TRUE,
          fs |-> [x \in DOMAIN f |-> IF x \in Prefixes(p) THEN DirEnt ELSE f[x]],
          error |-> ""]

\* fs.mkdirSync(p)
MkdirSync(f, p) ==
    IF ExistsSync(f, p) THEN [ok |-> FALSE, fs |-> f, error |-> "EEXIST"]
    ELSE IF ~IsDirectory(f, Parent(p)) THEN [ok |-> FALSE, fs |-> f, error |-> "ENOENT"]
    ELSE [ok |-> TRUE, fs |-> [f EXCEPT ![p] = DirEnt], error |-> ""]

\* fs.writeFileSync(p, c): creates the file or replaces its content
WriteFileSync(f, p, c) ==
    IF f[p].kind = "dir" THEN [ok |-> FALSE, fs |-> f, error |-> "EISDIR"]
    ELSE IF ~IsDirectory(f, Parent(p)) THEN [ok |-> FALSE, fs |-> f, error |-> "ENOENT"]
    ELSE [ok |-> TRUE, fs |-> [f EXCEPT ![p] = FileEnt(c)], error |-> ""]

EmptyFs == [p \in Paths |-> NoEnt]

\* The directories the session can start in: what the user had put there
\* before (a directory, or a file with the user's own content).
File(p) == [path |-> p, ent |-> FileEnt(UserText)]
Dir(p) == [path |-> p, ent |-> DirEnt]
UserDirs ==
    { {},
      {File(<<"a.txt">>)}, {Dir(<<"a.txt">>)}, {File(<<"a.txt">>), File(<<"b.txt">>)},
      {Dir(<<"models">>)}, {File(<<"models">>)},
      {Dir(<<"src">>)}, {File(<<"src">>)},
      {Dir(<<"src">>), File(<<"src", "server.js">>)},
      {Dir(<<"src">>), Dir(<<"src", "server.js">>)},
      {File(<<".gitignore">>)}, {Dir(<<".git">>)},
      {Dir(<<".git">>), File(<<".gitignore">>)},
      {File(<<".env">>)}, {File(<<".env.example">>)},
      {File(<<"pnpm-lock.yaml">>)}, {File(<<"yarn.lock">>)},
      {File(<<"pnpm-lock.yaml">>), File(<<"yarn.lock">>)},
      {Dir(<<CliFolder>>)},
      {Dir(<<"plugins">>)},
      {Dir(<<"plugins">>), File(PluginFile("hello"))} }
Populated(S) ==
    [p \in Paths |-> IF \E c \in S : c.path = p
                     THEN (CHOOSE c \in S : c.path = p).ent
                     ELSE NoEnt]
InitialFs == {Populated(S) : S \in UserDirs}

\* the install directory: without plugins, or shipping plugins/hello.js
EmptyInstall == [p \in InstallPaths |-> NoEnt]
InstallWithPlugin ==
    [p \in InstallPaths |->
        IF p = <<"plugins">> THEN DirEnt
        ELSE IF p = PluginFile("hello") THEN FileEnt("plugin") ELSE NoEnt]
\* the working directory and the install directory a session starts with
InitialSetups ==
    {<<f, EmptyInstall>> : f \in InitialFs} \cup
    {<<Populated(S), InstallWithPlugin>> :
        S \in {{}, {Dir(<<"plugins">>)},
                {Dir(<<"plugins">>), File(PluginFile("hello"))}}}

(***************************************************************************)
(* String functions of the code.                                           *)
(***************************************************************************)
StartsWith(s, pre) == Len(s) >= Len(pre) /\ SubSeq(s, 1, Len(pre)) = pre

\* s.replace(c, ""): the first occurrence of the one-character string c removed
RECURSIVE ReplaceFirst(_, _)
ReplaceFirst(s, c) ==
    IF Len(s) = 0 THEN s
    ELSE IF SubSeq(s, 1, 1) = c THEN SubSeq(s, 2, Len(s))
    ELSE SubSeq(s, 1, 1) \o ReplaceFirst(SubSeq(s, 2, Len(s)), c)

\* s.split(""): the sequence of the characters of s
SplitChars(s) == [i \in 1..Len(s) |-> SubSeq(s, i, i)]

\* list.join(sep)
RECURSIVE Join(_, _)
Join(list, sep) ==
    IF list = <<>> THEN ""
    ELSE IF Len(list) = 1 THEN list[1]
    ELSE list[1] \o sep \o Join(Tail(list), sep)

(***************************************************************************)
(* Process runner.  An outcome is how the spawned child ends: spawnSync    *)
(* could not launch it (res.error), a signal killed it (res.status is      *)
(* null), or it exited with a code.                                        *)
(***************************************************************************)
Outcomes == {[kind |-> "exit", code |-> c] : c \in 0..MaxExit} \cup
            {[kind |-> "signal", code |-> 0], [kind |-> "error", code |-> 0]}

SpawnSync(o) == [error |-> o.kind = "error",
                 hasStatus |-> o.kind = "exit",
                 status |-> o.code]

\* runShell: throws res.error, else returns res.status ?? 0
RunShell(o) ==
    LET res == SpawnSync(o)
    IN IF res.error THEN [threw |-> TRUE, ret |-> 0]
       ELSE [threw |-> FALSE, ret |-> IF res.hasStatus THEN res.status ELSE 0]

\* how the children of one handler end, in the order they are run
OutcomeSeqs == [{1, 2} -> Outcomes]
\* the same for a handler that runs one child
OneOutcome == [{1} -> Outcomes]
\* two children in a row: the second is not run when the first cannot be launched
StopAtThrow == {oc \in OutcomeSeqs : oc[1].kind = "error" => oc[2] = oc[1]}
\* both children exiting 0
BothSucceed == [i \in {1, 2} |-> [kind |-> "exit", code |-> 0]]
\* try { first } catch { second }: the second is run only then
SecondOnThrow == {oc \in OutcomeSeqs : oc[1].kind # "error" => oc[2] = oc[1]}

\* What the tools this model tracks leave on disk: a successful `git init`
\* creates .git.
ToolEffect(f, cmd, o) ==
    IF cmd = "git init" /\ o.kind = "exit" /\ o.code = 0 /\ f[<<".git">>].kind = "none"
    THEN [f EXCEPT ![<<".git">>] = DirEnt]
    ELSE f

\* pkgManager, decided from the lock files when the process starts
PkgManager(f) ==
    IF ExistsSync(f, <<"pnpm-lock.yaml">>) THEN "pnpm"
    ELSE IF ExistsSync(f, <<"yarn.lock">>) THEN "yarn"
    ELSE "npm"

(***************************************************************************)
(* A handler is run as a chain of steps over a record r: the filesystem,   *)
(* the children run so far, the lines printed and the exception thrown     *)
(* ("" while none is).  A step after a throw does nothing.                 *)
(***************************************************************************)
Start(f) == [fs |-> f, procs |-> <<>>, out |-> <<>>, err |-> ""]

Say(r, lvl, s) ==
    IF r.err # "" THEN r
    ELSE [r EXCEPT !.out = Append(@, [lvl |-> lvl, text |-> s])]

FsStep(r, res) ==
    IF r.err # "" THEN r
    ELSE IF res.ok THEN [r EXCEPT !.fs = res.fs]
    ELSE [r EXCEPT !.err = res.error]

Mkdirp(r, p) == IF r.err # "" THEN r ELSE FsStep(r, MkdirRecursive(r.fs, p))
Mkdir(r, p) == IF r.err # "" THEN r ELSE FsStep(r, MkdirSync(r.fs, p))
Write(r, p, c) == IF r.err # "" THEN r ELSE FsStep(r, WriteFileSync(r.fs, p, c))

\* runShell(cmd): the k-th child of the handler ends as oc[k]
Shell(r, cmd, oc) ==
    IF r.err # "" THEN r
    ELSE LET o == oc[Len(r.procs) + 1]
             res == RunShell(o)
         IN [r EXCEPT !.procs = Append(@, [cmd |-> cmd, outcome |-> o,
                                           threw |-> res.threw, ret |-> res.ret]),
                      !.fs = ToolEffect(@, cmd, o),
                      !.err = IF res.threw THEN "spawn " \o cmd \o " ENOENT" ELSE ""]

(***************************************************************************)
(* The handlers of main(), each from its first statement to its return.    *)
(***************************************************************************)
\* init <name>
CmdInit(f, args, oc) ==
    IF Len(args) < 2 THEN Say(Start(f), "warn", "Usage: decode init <cli-name>")
    ELSE
      LET cliName == args[2]
          folder == <<cliName \o "-cli">>
      IN IF ExistsSync(f, folder)
         THEN Say(Start(f), "err", "Folder '" \o folder[1] \o "' already exists.")
         ELSE
           LET r1 == Say(Start(f), "log", "Creating custom CLI: " \o cliName)
               r2 == Mkdir(r1, folder)
               r3 == Write(r2, folder \o <<"package.json">>, PkgText(cliName))
               r4 == Write(r3, folder \o <<"index.js">>, EngineText(cliName))
               r5 == Say(r4, "log", "Installing chalk...")
               r6 == Shell(r5, "cd \"" \o folder[1] \o "\" && npm install", oc)
               r7 == Say(r6, "log", "Linking globally...")
               r8 == Shell(r7, "cd \"" \o folder[1] \o "\" && npm link", oc)
           IN Say(r8, "success", "Done! Use: " \o cliName \o " -info")

\* -backend [name]
CmdBackend(f, args, oc) ==
    LET name == IF Len(args) >= 2 THEN args[2] ELSE "."
        target == IF name = "." THEN <<>> ELSE <<name>>
        shown == IF name = "." THEN "cwd" ELSE "cwd/" \o name
        r0 == Start(f)
        r1 == IF name # "." /\ ~ExistsSync(f, target) THEN Mkdirp(r0, target) ELSE r0
        src == target \o <<"src">>
        r2 == Mkdirp(r1, src)
        r3 == Write(r2, src \o <<"server.js">>, ServerText)
        r4 == Shell(r3, "cd \"" \o shown \o "\" && npm init -y", oc)
        r5 == Shell(r4, "cd \"" \o shown \o "\" && " \o PkgManager(f)
                          \o " install express cors dotenv", oc)
    IN Say(r5, "success", "Backend ready: " \o shown)

\* -folders: the map of the flag letters, and the two forEach loops.  A loop
\* state is the run record and the list `created`.
FolderMapSwapped ==
    [m |-> "models", c |-> "routes", r |-> "controllers", s |-> "services"]

FolderMap ==
    [m |-> "models", c |-> "controllers", r |-> "routes", s |-> "services"]

FolderStep(st, name) ==
    LET dir == <<name>>
        r1 == IF ~ExistsSync(st.r.fs, dir) THEN Mkdirp(st.r, dir) ELSE st.r
    IN IF r1.err # "" THEN [st EXCEPT !.r = r1]
       ELSE [r |-> r1, created |-> Append(st.created, name)]

RECURSIVE FlagLoop(_, _)
FlagLoop(st, flags) ==
    IF flags = <<>> \/ st.r.err # "" THEN st
    ELSE IF Head(flags) \in DOMAIN FolderMap
         THEN FlagLoop(FolderStep(st, FolderMap[Head(flags)]), Tail(flags))
         ELSE FlagLoop(st, Tail(flags))

RECURSIVE CustomLoop(_, _)
CustomLoop(st, names) ==
    IF names = <<>> \/ st.r.err # "" THEN st
    ELSE CustomLoop(FolderStep(st, Head(names)), Tail(names))

CmdFolders(f, args0) ==
    LET args == IF Len(args0) < 2 THEN <<"-folders", "-mrcs">> ELSE args0
        arg == args[2]
        st0 == [r |-> Start(f), created |-> <<>>]
        st == IF StartsWith(arg, "-")
              THEN FlagLoop(st0, SplitChars(ReplaceFirst(arg, "-")))
              ELSE CustomLoop(st0, Tail(args))
    IN IF Len(st.created) > 0
       THEN Say(st.r, "success", "Created folders: " \o Join(st.created, ", "))
       ELSE Say(st.r, "warn", "No folders created. Use -mrcs or custom names.")

\* -files f1 f2 ...
FileStepNoCheck(r, name) ==
    Say(Write(r, <<name>>, ""), "log", "Created: " \o name)

FileStep(r, name) ==
    LET p == <<name>>
        r1 == IF ~ExistsSync(r.fs, p) THEN Write(r, p, "") ELSE r
    IN Say(r1, "log", "Created: " \o name)

RECURSIVE FilesLoop(_, _)
FilesLoop(r, names) ==
    IF names = <<>> \/ r.err # "" THEN r
    ELSE FilesLoop(FileStep(r, Head(names)), Tail(names))

CmdFiles(f, args) ==
    IF Len(args) < 2 THEN Say(Start(f), "warn", "Usage: decode -files f1 f2...")
    ELSE FilesLoop(Start(f), Tail(args))

\* -go: try { runShell(run dev) } catch { runShell(start) }
CmdGo(f, oc) ==
    LET pm == PkgManager(f)
        r0 == Say(Start(f), "log", "Starting with " \o pm \o "...")
        r1 == Shell(r0, pm \o " run dev", oc)
    IN IF r1.err # "" THEN Shell([r1 EXCEPT !.err = ""], pm \o " start", oc)
       ELSE r1

\* -git
CmdGit(f, oc) ==
    IF ExistsSync(f, <<".git">>) THEN Say(Start(f), "warn", "Git already exists.")
    ELSE LET r1 == Shell(Start(f), "git init", oc)
             r2 == Write(r1, <<".gitignore">>, GitignoreText)
         IN Say(r2, "success", "Git + .gitignore")

\* -env
CmdEnv(f) ==
    LET r0 == Start(f)
        r1 == IF ~ExistsSync(r0.fs, <<".env">>) THEN Write(r0, <<".env">>, EnvText) ELSE r0
        r2 == IF ~ExistsSync(r1.fs, <<".env.example">>)
              THEN Write(r1, <<".env.example">>, EnvText) ELSE r1
    IN Say(r2, "success", ".env + .env.example")

\* -p pkg1 pkg2 ... without the test for packages being given
CmdPNoUsageCheck(f, args, oc) ==
    LET pkgs == Join(Tail(args), " ")
        r1 == Say(Start(f), "log", "Installing with " \o PkgManager(f) \o ": " \o pkgs)
        r2 == Shell(r1, PkgManager(f) \o " install " \o pkgs, oc)
    IN Say(r2, "success", "Installed.")

\* -p pkg1 pkg2 ...
CmdP(f, args, oc) ==
    IF Len(args) < 2 THEN Say(Start(f), "warn", "Usage: decode -p pkg1 pkg2...")
    ELSE LET pkgs == Join(Tail(args), " ")
             r1 == Say(Start(f), "log",
                       "Installing with " \o PkgManager(f) \o ": " \o pkgs)
             r2 == Shell(r1, PkgManager(f) \o " install " \o pkgs, oc)
         IN Say(r2, "success", "Installed.")

\* the places a plugin is looked for, the install directory first
PluginPathsInstallFirst(name) ==
    << [where |-> "install", path |-> PluginFile(name),
        str |-> Join(<<InstallDir>> \o PluginFile(name), "\\")],
       [where |-> "cwd", path |-> PluginFile(name),
        str |-> Join(<<Cwd>> \o PluginFile(name), "\\")] >>

\* paths = [join(cwd, "plugins", name + ".js"), join(__dirname, "plugins", name + ".js")]
PluginPaths(name) ==
    << [where |-> "cwd", path |-> PluginFile(name),
        str |-> Join(<<Cwd>> \o PluginFile(name), "\\")],
       [where |-> "install", path |-> PluginFile(name),
        str |-> Join(<<InstallDir>> \o PluginFile(name), "\\")] >>

\* fs.existsSync(p) for one of those places
PluginExists(f, inst, pl) ==
    IF pl.where = "cwd" THEN ExistsSync(f, pl.path) ELSE ExistsSync(inst, pl.path)

\* -plugin <name> [args...] running the first place whether it exists or not
CmdPluginNoFoundCheck(f, inst, args, oc) ==
    IF Len(args) < 2 THEN Say(Start(f), "warn", "Usage: decode -plugin <name> [args...]")
    ELSE Shell(Start(f), "node \"" \o PluginPaths(args[2])[1].str \o "\" "
                          \o Join(SubSeq(args, 3, Len(args)), " "), oc)

\* -plugin <name> [args...]
CmdPlugin(f, inst, args, oc) ==
    IF Len(args) < 2 THEN Say(Start(f), "warn", "Usage: decode -plugin <name> [args...]")
    ELSE LET name == args[2]
             extra == SubSeq(args, 3, Len(args))
             found == SelectSeq(PluginPaths(name), LAMBDA pl : PluginExists(f, inst, pl))
         IN IF found = <<>> THEN Say(Start(f), "warn", "Plugin not found: " \o name)
            ELSE Shell(Start(f), "node \"" \o found[1].str \o "\" " \o Join(extra, " "), oc)

\* an unknown command reported as an error
CmdHelpAsError(f) == [Start(f) EXCEPT !.err = "Unknown command"]

\* help(): the commands table, printed with console.log
CmdHelp(f) == Say(Start(f), "help", "Decode CLI v3.0 - Commands")

\* the first tokens main() has a handler for
RecognizedTokens ==
    {"-v", "--version", "-explorer", "-terminal", "-nav", "-compass", "-cwd",
     "-choose", "-projects", "-devauto", "-term", "-killport", "-choose-old",
     "init", "-p", "-frontend", "-backend", "-folders", "-files", "-run", "-go",
     "-plugin", "-open", "-info", "-git", "-env", "-dash"}

\* main(): no token gives help(); else the first handler whose token equals
\* args[0] runs and returns; no handler matching gives help().  (The handlers
\* dispatched here are the ones this specification runs.)
Main(f, inst, args, oc) ==
    IF args = <<>> THEN CmdHelp(f)
    ELSE LET cmd == args[1]
         IN IF cmd = "init" THEN CmdInit(f, args, oc)
            ELSE IF cmd = "-p" THEN CmdP(f, args, oc)
            ELSE IF cmd = "-backend" THEN CmdBackend(f, args, oc)
            ELSE IF cmd = "-folders" THEN CmdFolders(f, args)
            ELSE IF cmd = "-files" THEN CmdFiles(f, args)
            ELSE IF cmd = "-go" THEN CmdGo(f, oc)
            ELSE IF cmd = "-plugin" THEN CmdPlugin(f, inst, args, oc)
            ELSE IF cmd = "-git" THEN CmdGit(f, oc)
            ELSE IF cmd = "-env" THEN CmdEnv(f)
            ELSE CmdHelp(f)

\* -folders of src/index.js: args is a const there, so the assignment of the
\* default throws a TypeError, which the catch of main reports
CmdFoldersIndexJs(f, args) ==
    IF Len(args) < 2
    THEN [Start(f) EXCEPT !.err = "Assignment to constant variable."]
    ELSE CmdFolders(f, args)

\* the detector's variables while no detection is modelled
DetectIdle ==
    /\ disk = <<>>
    /\ dpc = "idle"
    /\ dIn = <<>>
    /\ dOut = ""

\* the navigator's variables while a command that is not a navigator runs
NavIdle ==
    /\ tree = <<>>
    /\ navPc = "start"
    /\ currentPath = <<>>
    /\ currentChoices = <<>>
    /\ actionCalls = <<>>
    /\ lastEvent = ""
    /\ prevPath = <<>>
    /\ entry = [from |-> <<>>, choices |-> <<>>]
    /\ steps = 0
    /\ changes = 0
    /\ listed = <<>>

(***************************************************************************)
(* One invocation of the CLI: the process starts on the directory as it    *)
(* is, main() dispatches on argv[0], the handler runs, and the process     *)
(* ends: 0 when the handler returns, 1 from the catch of main(), which     *)
(* prints the message first.                                               *)
(***************************************************************************)
FinishAs(v, a, r) ==
    /\ runs < MaxRuns
    /\ variant' = v
    /\ runs' = runs + 1
    /\ preFs' = fs
    /\ argv' = a
    /\ repeat' = (runs > 0 /\ a = argv)
    /\ fs' = r.fs
    /\ procs' = r.procs
    /\ out' = IF r.err # "" THEN Append(r.out, [lvl |-> "err", text |-> r.err]) ELSE r.out
    /\ exitCode' = IF r.err # "" THEN 1 ELSE 0
    /\ UNCHANGED <<installFs, nvars, tvars>>

Finish(a, r) == FinishAs("part_001", a, r)

NameLists == UNION {[1..k -> Names] : k \in 1..MaxNames}
FolderFlagArgs == {"-mrcs", "-mcrs", "-x"}

Init ==
    /\ \E su \in InitialSetups : fs = su[1] /\ installFs = su[2]
    /\ variant = "part_001"
    /\ preFs = fs
    /\ argv = <<>>
    /\ procs = <<>>
    /\ out = <<>>
    /\ exitCode = -1
    /\ repeat = FALSE
    /\ runs = 0
    /\ NavIdle
    /\ DetectIdle

InitCmd ==
    \/ Finish(<<"init">>, Main(fs, installFs, <<"init">>, BothSucceed))
    \/ \E oc \in StopAtThrow :
         Finish(<<"init", CliName>>, Main(fs, installFs, <<"init", CliName>>, oc))

Backend ==
    \/ \E oc \in StopAtThrow :
         Finish(<<"-backend">>, Main(fs, installFs, <<"-backend">>, oc))
    \/ Finish(<<"-backend", ".">>, Main(fs, installFs, <<"-backend", ".">>, BothSucceed))

Folders ==
    \E a \in {<<"-folders">>} \cup {<<"-folders", x>> : x \in FolderFlagArgs}
             \cup {<<"-folders">> \o l : l \in NameLists} :
        Finish(a, Main(fs, installFs, a, <<>>))

\* -folders run from src/index.js
FoldersIndexJs ==
    \E a \in {<<"-folders">>, <<"-folders", "-mrcs">>} :
        FinishAs("index.js", a, CmdFoldersIndexJs(fs, a))

Files ==
    \E a \in {<<"-files">>} \cup {<<"-files">> \o l : l \in NameLists} :
        Finish(a, Main(fs, installFs, a, <<>>))

Go == \E oc \in SecondOnThrow : Finish(<<"-go">>, Main(fs, installFs, <<"-go">>, oc))

Git == \E oc \in OneOutcome : Finish(<<"-git">>, Main(fs, installFs, <<"-git">>, oc))

Env ==
    \E a \in {<<"-env">>, <<"-env", "-git">>} :
        Finish(a, Main(fs, installFs, a, <<>>))

P ==
    \/ Finish(<<"-p">>, Main(fs, installFs, <<"-p">>, BothSucceed))
    \/ \E oc \in OneOutcome :
         Finish(<<"-p", "chalk">>, Main(fs, installFs, <<"-p", "chalk">>, oc))

PluginArgs ==
    {<<"-plugin", "hello">>, <<"-plugin", "missing">>, <<"-plugin", "hello", "--fast">>}
Plugin ==
    \/ Finish(<<"-plugin">>, Main(fs, installFs, <<"-plugin">>, BothSucceed))
    \/ \E a \in PluginArgs, oc \in OneOutcome :
         Finish(a, Main(fs, installFs, a, oc))

\* no token, or a token no handler is for
HelpArgs == {<<>>, <<"-zzz">>, <<"-zzz", "-git">>}
Help == \E a \in HelpArgs : Finish(a, Main(fs, installFs, a, <<>>))

Next ==
    InitCmd \/ Backend \/ Folders \/ FoldersIndexJs \/ Files \/ Go \/ Git \/ Env
    \/ P \/ Plugin \/ Help

Spec == Init /\ [][Next]_vars

(***************************************************************************)
(* The disk the navigator walks.  A path is the sequence of its components *)
(* from the drive; the universe holds the drive, the three configured      *)
(* roots (the third is the parent of the other two) and a few entries.     *)
(***************************************************************************)
Drive == <<"D:">>
Studies == <<"D:", "Studies">>
Root3 == <<"D:", "Studies", "projects">>
Root1 == Root3 \o <<"my_projects">>
Root2 == Root3 \o <<"cookie_projects">>
PROJECT_ROOTS == <<Root1, Root2, Root3>>

\* every path of the universe, in the order readdirSync lists names, with the
\* kind the entry has when it exists ("bad": an entry statSync throws on)
NavUniverse ==
    << [path |-> Drive, kind |-> "dir"],
       [path |-> Studies, kind |-> "dir"],
       [path |-> <<"D:", "System Volume Information">>, kind |-> "bad"],
       [path |-> Root3, kind |-> "dir"],
       [path |-> Root2, kind |-> "dir"],
       [path |-> Root1, kind |-> "dir"],
       [path |-> Root1 \o <<"app">>, kind |-> "dir"],
       [path |-> Root3 \o <<"notes.txt">>, kind |-> "file"],
       [path |-> Root3 \o <<"other">>, kind |-> "dir"] >>
NavPaths == {NavUniverse[i].path : i \in 1..Len(NavUniverse)}
KindOf(p) == NavUniverse[CHOOSE i \in 1..Len(NavUniverse) : NavUniverse[i].path = p]

IsUnder(p, q) == Len(p) > Len(q) /\ SubSeq(p, 1, Len(q)) = q
IsChildOf(p, q) == Len(p) = Len(q) + 1 /\ SubSeq(p, 1, Len(q)) = q

\* path.dirname: the parent; the drive root is its own parent
Dirname(p) == IF Len(p) <= 1 THEN p ELSE SubSeq(p, 1, Len(p) - 1)
\* path.basename
Basename(p) == p[Len(p)]
PathStr(p) == Join(p, "\\")

TreeExists(t, p) == p \in NavPaths /\ t[p] # "none"

\* fs.readdirSync(p).map(d => path.join(p, d)): the entries of p, or a throw
Readdir(t, p) ==
    IF p \in NavPaths /\ t[p] = "dir"
    THEN [ok |-> TRUE,
          list |-> LET rec == SelectSeq(NavUniverse,
                                  LAMBDA e : IsChildOf(e.path, p) /\ t[e.path] # "none")
                   IN [i \in 1..Len(rec) |-> rec[i].path]]
    ELSE [ok |-> FALSE, list |-> <<>>]

\* list.filter(p => fs.statSync(p).isDirectory()): a throw when statSync throws
FilterDirs(t, list) ==
    IF \E i \in 1..Len(list) : t[list[i]] = "bad"
    THEN [ok |-> FALSE, list |-> <<>>]
    ELSE [ok |-> TRUE, list |-> SelectSeq(list, LAMBDA q : t[q] = "dir")]

\* readdirSync(p).map(..).filter(..)
ListDirs(t, p) ==
    LET r == Readdir(t, p)
    IN IF r.ok THEN FilterDirs(t, r.list) ELSE r

\* the listing made on Go Back
ListOnBack(t, p) == ListDirs(t, p)

\* the listing made on a descent: try { ... } catch { }  leaves children = []
ListOnDescend(t, p) ==
    LET r == ListDirs(t, p)
    IN IF r.ok THEN r.list ELSE <<>>

\* PROJECT_ROOTS.filter(r => fs.existsSync(r))
ExistingRoots(t) == SelectSeq(PROJECT_ROOTS, LAMBDA r : TreeExists(t, r))

NavCmds == {"-explorer", "-terminal", "-nav"}

HasPathAlways(p) == TRUE

\* the test `currentPath` of `if (!currentPath)`: null until a directory is chosen
HasPath(p) == p # <<>>

\* the action each navigator command passes to stepNavigator
NavAction(cmd, folder, oc) ==
    IF cmd = "-explorer"
    THEN LET r1 == Say(Start(fs), "log", "Opening Explorer: " \o PathStr(folder))
             r2 == Shell(r1, "explorer \"" \o PathStr(folder) \o "\"", oc)
         IN Say(r2, "success", "Opened in Explorer.")
    ELSE IF cmd = "-terminal"
    THEN LET r1 == Say(Start(fs), "log", "Opening terminal: " \o PathStr(folder))
             r2 == Shell(r1, "wt.exe -w 0 nt -d \"" \o PathStr(folder) \o "\"", oc)
             r3 == IF r2.err # ""
                   THEN Shell([r2 EXCEPT !.err = ""],
                              "start cmd /K \"cd /d " \o PathStr(folder) \o "\"", oc)
                   ELSE r2
         IN Say(r3, "success", "Terminal launched.")
    ELSE LET r1 == Say(Start(fs), "log", "Opening VSCode: " \o PathStr(folder))
             r2 == Shell(r1, "code \"" \o PathStr(folder) \o "\"", oc)
         IN Say(r2, "success", "VSCode opened.")

\* the disks a navigator run can start on
FullTree == [p \in NavPaths |-> KindOf(p).kind]
WithoutPaths(t, S) ==
    [p \in NavPaths |-> IF \E q \in S : p = q \/ IsUnder(p, q) THEN "none" ELSE t[p]]
InitialTrees ==
    { FullTree,
      WithoutPaths(FullTree, {Root3 \o <<"other">>}),
      WithoutPaths(FullTree, {Root2, Root3 \o <<"notes.txt">>}),
      WithoutPaths(FullTree, {Drive}) }

InitNav ==
    /\ fs = EmptyFs /\ preFs = EmptyFs /\ repeat = FALSE /\ runs = 0
    /\ installFs = EmptyInstall /\ variant = "part_001"
    /\ argv \in {<<c>> : c \in NavCmds}
    /\ procs = <<>> /\ out = <<>> /\ exitCode = -1
    /\ tree \in InitialTrees
    /\ navPc = "start"
    /\ currentPath = <<>>
    /\ currentChoices = <<>>
    /\ actionCalls = <<>>
    /\ lastEvent = ""
    /\ prevPath = <<>>
    /\ entry = [from |-> <<>>, choices |-> <<>>]
    /\ steps = 0
    /\ changes = 0
    /\ listed = <<>>
    /\ DetectIdle

NavFrame == UNCHANGED <<fs, preFs, repeat, runs, argv, installFs, variant, tvars>>

\* main() reaches `return stepNavigator(action)`: the first listing, then the prompt
NavStart ==
    /\ navPc = "start"
    /\ navPc' = "prompt"
    /\ currentChoices' = ExistingRoots(tree)
    /\ currentPath' = <<>>
    /\ UNCHANGED <<tree, actionCalls, lastEvent, prevPath, entry, steps, changes,
                   listed, procs, out, exitCode>>
    /\ NavFrame

Selecting(ev) ==
    /\ navPc = "prompt"
    /\ steps < MaxSteps
    /\ steps' = steps + 1
    /\ lastEvent' = ev
    /\ prevPath' = currentPath
    /\ UNCHANGED <<tree, changes>>
    /\ NavFrame

\* the process ends: stepNavigator returned, or its promise was rejected (main
\* returns it without awaiting it, so the catch of main does not see it)
NavReturn == navPc' = "done" /\ exitCode' = 0
NavReject == navPc' = "crashed" /\ exitCode' = 1

\* "Exit" falling through to the action when a path is set
ChooseExitRunsAction ==
    /\ Selecting("__exit")
    /\ NavReturn
    /\ actionCalls' = IF HasPath(currentPath) THEN Append(actionCalls, currentPath)
                      ELSE actionCalls
    /\ listed' = <<>>
    /\ UNCHANGED <<currentPath, currentChoices, entry, procs, out>>

\* "Exit"
ChooseExit ==
    /\ Selecting("__exit")
    /\ NavReturn
    /\ listed' = <<>>
    /\ UNCHANGED <<currentPath, currentChoices, actionCalls, entry, procs, out>>

\* "Go Back" without the test for a path having been entered
ChooseBackNoGuard ==
    /\ Selecting("__back")
    /\ LET parent == Dirname(currentPath)
           l == ListOnBack(tree, parent)
       IN /\ currentPath' = parent
          /\ listed' = <<parent>>
          /\ IF l.ok
             THEN /\ currentChoices' = l.list
                  /\ UNCHANGED <<navPc, exitCode>>
             ELSE /\ NavReject
                  /\ UNCHANGED currentChoices
    /\ UNCHANGED <<actionCalls, entry, procs, out>>

\* "Go Back" leaving a configured root for the roots listing again
ChooseBackToRoots ==
    /\ Selecting("__back")
    /\ IF ~HasPath(currentPath)
       THEN /\ NavReturn
            /\ listed' = <<>>
            /\ UNCHANGED <<currentPath, currentChoices>>
       ELSE IF \E i \in 1..Len(PROJECT_ROOTS) : PROJECT_ROOTS[i] = currentPath
       THEN /\ currentPath' = <<>>
            /\ currentChoices' = ExistingRoots(tree)
            /\ listed' = <<>>
            /\ UNCHANGED <<navPc, exitCode>>
       ELSE LET parent == Dirname(currentPath)
                l == ListOnBack(tree, parent)
            IN /\ currentPath' = parent
               /\ listed' = <<parent>>
               /\ IF l.ok
                  THEN /\ currentChoices' = l.list
                       /\ UNCHANGED <<navPc, exitCode>>
                  ELSE /\ NavReject
                       /\ UNCHANGED currentChoices
    /\ UNCHANGED <<actionCalls, entry, procs, out>>

\* "Go Back"
ChooseBack ==
    /\ Selecting("__back")
    /\ IF ~HasPath(currentPath)
       THEN /\ NavReturn
            /\ listed' = <<>>
            /\ UNCHANGED <<currentPath, currentChoices>>
       ELSE LET parent == Dirname(currentPath)
                l == ListOnBack(tree, parent)
            IN /\ currentPath' = parent
               /\ listed' = <<parent>>
               /\ IF l.ok
                  THEN /\ currentChoices' = l.list
                       /\ UNCHANGED <<navPc, exitCode>>
                  ELSE /\ NavReject
                       /\ UNCHANGED currentChoices
    /\ UNCHANGED <<actionCalls, entry, procs, out>>

\* "Open Here"
ChooseOpen ==
    /\ Selecting("__open")
    /\ IF ~HasPath(currentPath)
       THEN /\ out' = Append(out, [lvl |-> "warn", text |-> "No path selected."])
            /\ NavReturn
            /\ UNCHANGED <<actionCalls, procs>>
       ELSE \E oc \in OutcomeSeqs :
              LET r == NavAction(argv[1], currentPath, oc)
              IN /\ actionCalls' = Append(actionCalls, currentPath)
                 /\ procs' = r.procs
                 /\ out' = r.out
                 /\ IF r.err # "" THEN NavReject ELSE NavReturn
    /\ listed' = <<>>
    /\ UNCHANGED <<currentPath, currentChoices, entry>>

\* one of the listed directories
ChooseDir ==
    \E i \in 1..Len(currentChoices) :
        /\ Selecting("descend")
        /\ currentPath' = currentChoices[i]
        /\ currentChoices' = ListOnDescend(tree, currentChoices[i])
        /\ entry' = [from |-> currentPath, choices |-> currentChoices]
        /\ listed' = <<currentChoices[i]>>
        /\ UNCHANGED <<navPc, exitCode, actionCalls, procs, out>>

\* another process creates an entry or removes one (with all below it) while
\* the navigator waits at the prompt
FsChange ==
    /\ navPc = "prompt"
    /\ changes < MaxChanges
    /\ changes' = changes + 1
    /\ lastEvent' = "fs"
    /\ \E p \in NavPaths :
         \/ /\ tree[p] = "none"
            /\ Len(p) = 1 \/ tree[Dirname(p)] = "dir"
            /\ tree' = [tree EXCEPT ![p] = KindOf(p).kind]
         \/ /\ tree[p] # "none"
            /\ tree' = WithoutPaths(tree, {p})
    /\ UNCHANGED <<navPc, currentPath, currentChoices, actionCalls, prevPath, entry,
                   steps, listed, procs, out, exitCode>>
    /\ NavFrame

NextNav == NavStart \/ ChooseExit \/ ChooseBack \/ ChooseOpen \/ ChooseDir \/ FsChange

SpecNav == InitNav /\ [][NextNav]_vars

(***************************************************************************)
(* The active-path detector.  Paths are strings here, as the code handles  *)
(* them; a configured root is missing or holds a listing of entries.       *)
(***************************************************************************)
Upper == "ABCDEFGHIJKLMNOPQRSTUVWXYZ"
Lower == "abcdefghijklmnopqrstuvwxyz"
UpperSet == {SubSeq(Upper, i, i) : i \in 1..Len(Upper)}
LowerSet == {SubSeq(Lower, i, i) : i \in 1..Len(Lower)}
LowerMap ==
    [c \in UpperSet |->
        SubSeq(Lower, CHOOSE j \in 1..Len(Upper) : SubSeq(Upper, j, j) = c,
                      CHOOSE j \in 1..Len(Upper) : SubSeq(Upper, j, j) = c)]
LowerChar(c) == IF c \in UpperSet THEN LowerMap[c] ELSE c
IsLetter(c) == c \in UpperSet \cup LowerSet

\* s.toLowerCase()
RECURSIVE ToLowerCase(_)
ToLowerCase(s) ==
    IF Len(s) = 0 THEN s
    ELSE LowerChar(SubSeq(s, 1, 1)) \o ToLowerCase(SubSeq(s, 2, Len(s)))

\* s.includes(sub)
Includes(s, sub) ==
    \E i \in 0..(Len(s) - Len(sub)) : SubSeq(s, i + 1, i + Len(sub)) = sub

EndsWith(s, suf) ==
    Len(s) >= Len(suf) /\ SubSeq(s, Len(s) - Len(suf) + 1, Len(s)) = suf

\* s.trim()
Whitespace == {" ", "\t", "\n", "\r"}
RECURSIVE Trim(_)
Trim(s) ==
    IF Len(s) = 0 THEN s
    ELSE IF SubSeq(s, 1, 1) \in Whitespace THEN Trim(SubSeq(s, 2, Len(s)))
    ELSE IF SubSeq(s, Len(s), Len(s)) \in Whitespace THEN Trim(SubSeq(s, 1, Len(s) - 1))
    ELSE s

\* path.isAbsolute (win32): a leading separator, or a drive letter, ":" and a separator
Separators == {"\\", "/"}
IsAbsolute(s) ==
    \/ Len(s) >= 1 /\ SubSeq(s, 1, 1) \in Separators
    \/ /\ Len(s) >= 3
       /\ IsLetter(SubSeq(s, 1, 1))
       /\ SubSeq(s, 2, 2) = ":"
       /\ SubSeq(s, 3, 3) \in Separators

\* path.join(root, d)
PathJoin(a, b) == a \o "\\" \o b

RootStrs == << "D:\\Studies\\projects\\my_projects",
               "D:\\Studies\\projects\\cookie_projects",
               "D:\\Studies\\projects" >>
RootIds == 1..Len(RootStrs)
NestedRootNames == <<"my_projects", "cookie_projects">>

\* the names an entry of a root can have, in the order readdirSync lists them
\* ("bad": an entry statSync throws on)
NameOrder == <<"App", "app-locked", "app-old", "app.txt",
               "cookie_projects", "my_projects">>
FreeEntries ==
    { [name |-> "App", kind |-> "dir"],
      [name |-> "app-old", kind |-> "dir"],
      [name |-> "app.txt", kind |-> "file"],
      [name |-> "app-locked", kind |-> "bad"] }

RECURSIVE SubsetsUpTo(_, _)
SubsetsUpTo(S, k) ==
    IF k = 0 THEN {{}}
    ELSE LET prev == SubsetsUpTo(S, k - 1)
         IN prev \cup UNION {{T \cup {e} : e \in S \ T} : T \in prev}

Missing == [exists |-> FALSE, entries |-> {}]
Holding(S) == [exists |-> TRUE, entries |-> S]

\* the third root is the parent of the other two: it holds them when they
\* exist, and they cannot exist without it
Disks ==
    { [i \in RootIds |-> Missing] } \cup
    { [i \in RootIds |->
         IF i = 3
         THEN Holding(d[3].entries \cup
                      {[name |-> NestedRootNames[j], kind |-> "dir"] :
                           j \in {k \in {1, 2} : d[k].exists}})
         ELSE d[i]] :
      d \in [RootIds -> {Missing} \cup {Holding(S) : S \in SubsetsUpTo(FreeEntries, MaxPerRoot)}]
           \ {e \in [RootIds -> {Missing} \cup
                               {Holding(S) : S \in SubsetsUpTo(FreeEntries, MaxPerRoot)}] :
                  ~e[3].exists} }

OtherDirs == {Cwd, "C:\\Users\\me\\Downloads", "D:\\", "D:\\Studies"}

\* fs.existsSync on a path string
ExistsStr(d, s) ==
    \/ s \in OtherDirs /\ (s \in {"D:\\", "D:\\Studies"} => d[3].exists)
    \/ \E i \in RootIds : d[i].exists /\ s = RootStrs[i]
    \/ \E i \in RootIds : \E e \in d[i].entries : s = PathJoin(RootStrs[i], e.name)

\* fs.readdirSync(root): the names, in listing order
ReaddirNames(d, i) ==
    SelectSeq(NameOrder, LAMBDA n : \E e \in d[i].entries : e.name = n)
EntryKind(d, i, n) == (CHOOSE e \in d[i].entries : e.name = n).kind

\* fs.statSync(full)
StatSync(d, i, n) ==
    [threw |-> EntryKind(d, i, n) = "bad", isDirectory |-> EntryKind(d, i, n) = "dir"]

\* the filter without its isDirectory() test
IsCandidateAnyKind(d, i, n, title) ==
    Includes(ToLowerCase(n), ToLowerCase(title))

\* the filter of mapTitleToPath: try { return isDirectory && (equal || includes) }
\* catch { return false }
IsCandidate(d, i, n, title) ==
    LET st == StatSync(d, i, n)
    IN IF st.threw THEN FALSE
       ELSE /\ st.isDirectory
            /\ \/ ToLowerCase(n) = ToLowerCase(title)
               \/ Includes(ToLowerCase(n), ToLowerCase(title))

Candidates(d, i, title) ==
    SelectSeq(ReaddirNames(d, i), LAMBDA n : IsCandidate(d, i, n, title))

\* what one root answers: "" when the loop goes on to the next root
RootAnswer(d, i, title) ==
    IF ~d[i].exists THEN ""
    ELSE LET c == Candidates(d, i, title)
             exact == SelectSeq(c, LAMBDA n : ToLowerCase(n) = ToLowerCase(title))
         IN IF Len(c) = 1 THEN PathJoin(RootStrs[i], c[1])
            ELSE IF Len(c) > 1
                 THEN IF Len(exact) > 0 THEN PathJoin(RootStrs[i], exact[1])
                      ELSE PathJoin(RootStrs[i], c[1])
                 ELSE ""

RECURSIVE RootsLoop(_, _, _)
RootsLoop(d, i, title) ==
    IF i > Len(RootStrs) THEN ""
    ELSE LET a == RootAnswer(d, i, title)
         IN IF a # "" THEN a ELSE RootsLoop(d, i + 1, title)

\* mapTitleToPath(title); "" is null
MapTitleToPath(d, title) ==
    IF title = "" THEN ""
    ELSE IF IsAbsolute(title) /\ ExistsStr(d, title) THEN title
    ELSE RootsLoop(d, 1, title)

\* what a probe's child process gives: spawnSync's error and stdout
RunCapture(res) == IF res.error THEN "" ELSE Trim(res.stdout)

\* getActiveExplorerPathWindows(): out || null
GetActiveExplorerPathWindows(res) == RunCapture(res)

VSCodeSuffix == " - Visual Studio Code"
\* getActiveVSCodeTitle()
GetActiveVSCodeTitle(res) ==
    LET o == RunCapture(res)
    IN IF o = "" THEN ""
       ELSE Trim(IF EndsWith(o, VSCodeSuffix)
                 THEN SubSeq(o, 1, Len(o) - Len(VSCodeSuffix)) ELSE o)

DetectNoExistsCheck(d, eres, tres) ==
    LET explorer == GetActiveExplorerPathWindows(eres)
    IN IF explorer # "" THEN explorer ELSE Cwd

\* detectActivePath()
DetectActivePath(d, eres, tres) ==
    LET explorer == GetActiveExplorerPathWindows(eres)
    IN IF explorer # "" /\ ExistsStr(d, explorer) THEN explorer
       ELSE LET vsTitle == GetActiveVSCodeTitle(tres)
                vsMapped == MapTitleToPath(d, vsTitle)
            IN IF vsMapped # "" THEN vsMapped ELSE Cwd

\* the probes: how the query ended, and what spawnSync returned
Probe(how, error, stdout) == [how |-> how, error |-> error, stdout |-> stdout]
ExplorerProbes ==
    { Probe("ok", FALSE, "C:\\Users\\me\\Downloads\r\n"),
      Probe("ok", FALSE, "C:\\tmp\\gone\r\n"),
      Probe("empty", FALSE, ""),
      Probe("empty", FALSE, "\r\n"),
      Probe("nolaunch", TRUE, ""),
      Probe("garbled", FALSE, "D:\\Studies\\pro"),
      Probe("garbled", FALSE, "D:\\Studies") }
TitleProbes ==
    { Probe("ok", FALSE, "App - Visual Studio Code\r\n"),
      Probe("ok", FALSE, "index.js - app-old - Visual Studio Code\r\n"),
      Probe("empty", FALSE, ""),
      Probe("nolaunch", TRUE, ""),
      Probe("garbled", FALSE, "??"),
      Probe("garbled", FALSE, "pro") }
TitleInputs == {"", "app", "APP", "ap", "my", "pro", "old", "zzz", "D:\\Studies"}

InitDetect ==
    /\ fs = EmptyFs /\ preFs = EmptyFs /\ repeat = FALSE /\ runs = 0
    /\ installFs = EmptyInstall /\ variant = "part_001"
    /\ argv = <<>> /\ procs = <<>> /\ out = <<>> /\ exitCode = -1
    /\ NavIdle
    /\ disk \in Disks
    /\ dpc = "ready"
    /\ dIn = <<>>
    /\ dOut = ""

MapTitle ==
    /\ dpc = "ready"
    /\ \E t \in TitleInputs :
         /\ dIn' = [title |-> t]
         /\ dOut' = MapTitleToPath(disk, t)
    /\ dpc' = "mapped"
    /\ UNCHANGED <<disk, dvars, nvars>>

Detect ==
    /\ dpc = "ready"
    /\ \E ep \in ExplorerProbes, tp \in TitleProbes :
         /\ dIn' = [explorer |-> ep, title |-> tp]
         /\ dOut' = DetectActivePath(disk, ep, tp)
    /\ dpc' = "detected"
    /\ UNCHANGED <<disk, dvars, nvars>>

\* -term (the first handler for the token, the one that runs):
\* argPath = args[1] || detectActivePath(); wt.exe is opened there
CmdTerm(d, args, eres, tres, oc) ==
    LET argPath == IF Len(args) >= 2 /\ args[2] # "" THEN args[2]
                   ELSE DetectActivePath(d, eres, tres)
    IN IF argPath = "" \/ ~ExistsStr(d, argPath)
       THEN Say(Start(EmptyFs), "warn", "Path not found for terminal.")
       ELSE LET r1 == Shell(Start(EmptyFs), "wt.exe -w 0 nt -d \"" \o argPath \o "\"", oc)
            IN Say(r1, "success", "Terminal opened")

\* how the terminal's launcher ends: it exits 0, or it cannot be launched
TermOutcomes ==
    {[i \in {1} |-> [kind |-> "exit", code |-> 0]],
     [i \in {1} |-> [kind |-> "error", code |-> 0]]}

\* one invocation `decode -term`
Term ==
    /\ dpc = "ready"
    /\ \E ep \in ExplorerProbes, tp \in TitleProbes, oc \in TermOutcomes :
         LET r == CmdTerm(disk, <<"-term">>, ep, tp, oc)
         IN /\ dIn' = [explorer |-> ep, title |-> tp]
            /\ dOut' = DetectActivePath(disk, ep, tp)
            /\ procs' = r.procs
            /\ out' = IF r.err # "" THEN Append(r.out, [lvl |-> "err", text |-> r.err])
                      ELSE r.out
            /\ exitCode' = IF r.err # "" THEN 1 ELSE 0
    /\ argv' = <<"-term">>
    /\ dpc' = "term"
    /\ UNCHANGED <<disk, fs, preFs, repeat, runs, installFs, variant, nvars>>

NextDetect == MapTitle \/ Detect

SpecDetect == InitDetect /\ [][NextDetect]_vars

\* -term on its own, on the disks whose roots hold at most the project App
TermDisks ==
    {d \in Disks : \A i \in RootIds : \A e \in d[i].entries :
                       e.name \in {"App", "my_projects", "cookie_projects"}}
InitTerm ==
    /\ fs = EmptyFs /\ preFs = EmptyFs /\ repeat = FALSE /\ runs = 0
    /\ installFs = EmptyInstall /\ variant = "part_001"
    /\ argv = <<>> /\ procs = <<>> /\ out = <<>> /\ exitCode = -1
    /\ NavIdle
    /\ disk \in TermDisks
    /\ dpc = "ready"
    /\ dIn = <<>>
    /\ dOut = ""

NextTerm == Term

SpecTerm == InitTerm /\ [][NextTerm]_vars

(***************************************************************************)
(* The process helpers on their own.  Each passes { shell: true }: the     *)
(* child spawnSync launches is the shell, and the shell runs the command   *)
(* line.  A command ends with an exit code, or a signal kills it and       *)
(* res.status is null, or the shell does not find the executable and exits *)
(* with its own code (1 from cmd.exe), or the shell itself cannot be       *)
(* spawned, the one case in which spawnSync sets res.error.                *)
(***************************************************************************)
Stdouts == {"", "\r\n", "killed\r\n", "C:\\work\r\n", "C:\\tmp\\gone\r\n",
            "App - Visual Studio Code\r\n", "Access is denied.\r\n"}

ChildEnds ==
    {[how |-> "exit", code |-> c, stdout |-> s] : c \in 0..MaxExit, s \in Stdouts} \cup
    {[how |-> "signal", code |-> 0, stdout |-> s] : s \in Stdouts} \cup
    {[how |-> "notfound", code |-> 0, stdout |-> ""],
     [how |-> "noshell", code |-> 0, stdout |-> ""]}

\* what spawnSync sees of the shell it launched
ViaShell(e) ==
    IF e.how = "noshell" THEN [kind |-> "error", code |-> 0]
    ELSE IF e.how = "notfound" THEN [kind |-> "exit", code |-> 1]
    ELSE IF e.how = "signal" THEN [kind |-> "signal", code |-> 0]
    ELSE [kind |-> "exit", code |-> e.code]

\* spawnSync(cmd, { encoding: "utf8", shell: true }): res.error and res.stdout
CaptureResult(e) ==
    LET res == SpawnSync(ViaShell(e))
    IN [error |-> res.error,
        hasStatus |-> res.hasStatus,
        status |-> res.status,
        stdout |-> IF res.error THEN "" ELSE e.stdout]

\* cmd.split(" ")
RECURSIVE SplitOn(_, _)
SplitOn(s, sep) ==
    IF \A i \in 1..Len(s) : SubSeq(s, i, i) # sep THEN <<s>>
    ELSE LET i == CHOOSE k \in 1..Len(s) :
                      /\ SubSeq(s, k, k) = sep
                      /\ \A j \in 1..(k - 1) : SubSeq(s, j, j) # sep
         IN <<SubSeq(s, 1, i - 1)>> \o SplitOn(SubSeq(s, i + 1, Len(s)), sep)

\* runSync of the first version: the command is split at the spaces, the
\* shell is given the parts joined by spaces again; throws res.error, else
\* returns res.status ?? 0
RunSync(cmd, e) ==
    LET parts == SplitOn(cmd, " ")
        line == Join(parts, " ")
        res == SpawnSync(ViaShell(e))
    IN IF res.error THEN [threw |-> TRUE, ret |-> 0, line |-> line]
       ELSE [threw |-> FALSE, ret |-> IF res.hasStatus THEN res.status ELSE 0,
             line |-> line]

\* the query -killport runs for one port
KillCmd(p) ==
    "powershell -NoProfile -Command \"try { $pid=(Get-NetTCPConnection -LocalPort "
    \o p \o " ...).OwningProcess; if ($pid) {Stop-Process -Id $pid -Force; "
    \o "Write-Output 'killed' } } catch {}\""

\* the body of -killport's loop for one port, the query ending as e
KillStep(r, p, e) ==
    LET o == RunCapture(CaptureResult(e))
        r1 == [r EXCEPT !.procs = Append(@, [cmd |-> KillCmd(p), outcome |-> ViaShell(e),
                                             threw |-> FALSE, ret |-> o])]
    IN IF o # "" /\ Includes(o, "killed")
       THEN Say(r1, "log", "Killed process on port " \o p)
       ELSE Say(r1, "warn", "No process found on port " \o p)

RECURSIVE KillLoop(_, _, _)
KillLoop(r, ports, e) ==
    IF ports = <<>> THEN r
    ELSE KillLoop(KillStep(r, Head(ports), e), Tail(ports), e)

DefaultPorts == <<"3000", "5173", "8000", "8080">>

\* -killport: the ports given, or the common dev ports
CmdKillport(args, e) ==
    LET ports == IF Len(args) > 1 THEN Tail(args) ELSE DefaultPorts
    IN KillLoop(Start(EmptyFs), ports, e)

\* the disk the probes are tried on: every root exists, the first holds App
RunDisk ==
    [i \in RootIds |->
        IF i = 1 THEN Holding({[name |-> "App", kind |-> "dir"]})
        ELSE IF i = 2 THEN Holding({})
        ELSE Holding({[name |-> NestedRootNames[j], kind |-> "dir"] : j \in {1, 2}})]

RunCmds == {"npm install", "git init", "code ."}

InitRun ==
    /\ fs = EmptyFs /\ preFs = EmptyFs /\ repeat = FALSE /\ runs = 0
    /\ installFs = EmptyInstall /\ variant = "part_001"
    /\ argv = <<>> /\ procs = <<>> /\ out = <<>> /\ exitCode = -1
    /\ NavIdle
    /\ disk = RunDisk
    /\ dpc = "ready"
    /\ \E e \in ChildEnds : dIn = [child |-> e]
    /\ dOut = ""

RunFrame == UNCHANGED <<disk, dIn, fs, preFs, repeat, runs, installFs, variant, nvars>>

\* runCapture(cmd), the command ending as dIn.child
Capture ==
    /\ dpc = "ready"
    /\ dpc' = "captured"
    /\ dOut' = [threw |-> FALSE, ret |-> RunCapture(CaptureResult(dIn.child))]
    /\ UNCHANGED <<argv, procs, out, exitCode>>
    /\ RunFrame

\* runShell(cmd)
ShellRun ==
    /\ dpc = "ready"
    /\ dpc' = "shell"
    /\ dOut' = RunShell(ViaShell(dIn.child))
    /\ UNCHANGED <<argv, procs, out, exitCode>>
    /\ RunFrame

\* runSync(cmd) of the first version
SyncRun ==
    /\ dpc = "ready"
    /\ dpc' = "sync"
    /\ \E c \in RunCmds :
         /\ argv' = <<c>>
         /\ dOut' = RunSync(c, dIn.child)
    /\ UNCHANGED <<procs, out, exitCode>>
    /\ RunFrame

\* detectActivePath(), the Explorer query ending as dIn.child and the
\* editor-title query as any child can
ProbePath ==
    /\ dpc = "ready"
    /\ dpc' = "probed"
    /\ \E t \in ChildEnds :
         dOut' = [threw |-> FALSE,
                  ret |-> DetectActivePath(disk, CaptureResult(dIn.child),
                                           CaptureResult(t)),
                  titleChild |-> t]
    /\ UNCHANGED <<argv, procs, out, exitCode>>
    /\ RunFrame

\* one invocation `decode -killport [port]`, every query ending as dIn.child
Killport ==
    /\ dpc = "ready"
    /\ dpc' = "killport"
    /\ \E a \in {<<"-killport">>, <<"-killport", "3000">>} :
         LET r == CmdKillport(a, dIn.child)
         IN /\ argv' = a
            /\ procs' = r.procs
            /\ out' = IF r.err # "" THEN Append(r.out, [lvl |-> "err", text |-> r.err])
                      ELSE r.out
            /\ exitCode' = IF r.err # "" THEN 1 ELSE 0
            /\ dOut' = [threw |-> r.err # "", ret |-> ""]
    /\ RunFrame

NextRun == Capture \/ ShellRun \/ SyncRun \/ ProbePath \/ Killport

SpecRun == InitRun /\ [][NextRun]_vars

(***************************************************************************)
(* Claims about the dispatcher's commands, checked under Spec.             *)
(***************************************************************************)
Ran(cmd) == exitCode # -1 /\ argv # <<>> /\ argv[1] = cmd
Existing(f) == {p \in Paths : f[p].kind # "none"}
ExitedWith(p, c) == p.outcome.kind = "exit" /\ p.outcome.code = c
ExitedNonZero(p) == p.outcome.kind = "exit" /\ p.outcome.code # 0
Fallbacks == {i \in 1..Len(procs) : procs[i].cmd = PkgManager(preFs) \o " start"}

\* C1 (as claimed): after -go, a primary script (`<pkgManager> run dev`) that
\* ended with a non-zero exit code was followed by exactly one run of the
\* fallback (`<pkgManager> start`) and nothing else; a primary that ended with
\* exit code 0 was followed by no fallback.
C1_FallbackOnNonZeroExit ==
    Ran("-go") =>
        /\ procs[1].cmd = PkgManager(preFs) \o " run dev"
        /\ ExitedNonZero(procs[1]) => (Cardinality(Fallbacks) = 1 /\ Len(procs) = 2)
        /\ ExitedWith(procs[1], 0) => Fallbacks = {}

\* C2 (as claimed): no invocation changes a path that existed when it
\* started: every file and directory that existed before is identical after.
C2_ExistingPathsUntouched ==
    exitCode # -1 => \A p \in Existing(preFs) : fs[p] = preFs[p]

\* C3: after -files names.., or -folders names.. in custom-name mode, every
\* name that did not exist before exists (an empty file for -files, a
\* directory for -folders), every name that existed is as it was, nothing
\* else changed, and the second of two identical runs changes nothing.
CustomNamesRun ==
    /\ exitCode # -1
    /\ Len(argv) >= 2
    /\ \/ argv[1] = "-files"
       \/ argv[1] = "-folders" /\ ~StartsWith(argv[2], "-")
GivenNames == {argv[i] : i \in 2..Len(argv)}
C3_CreateAbsentLeaveExisting ==
    CustomNamesRun =>
        /\ exitCode = 0
        /\ \A n \in GivenNames :
              IF preFs[<<n>>].kind = "none"
              THEN fs[<<n>>] = (IF argv[1] = "-folders" THEN DirEnt ELSE FileEnt(""))
              ELSE fs[<<n>>] = preFs[<<n>>]
        /\ \A p \in Paths : (Len(p) > 1 \/ p[1] \notin GivenNames) => fs[p] = preFs[p]
        /\ repeat => fs = preFs

\* C3's case: `-files a.txt b.txt` run a second time, both files there and empty
C3_Witness ==
    /\ CustomNamesRun /\ repeat
    /\ argv = <<"-files", "a.txt", "b.txt">>
    /\ fs[<<"a.txt">>] = FileEnt("") /\ fs[<<"b.txt">>] = FileEnt("")

MrcsInEmptyDir == Ran("-folders") /\ argv = <<"-folders", "-mrcs">> /\ preFs = EmptyFs
OnlyTheFourDirs ==
    /\ Existing(fs) = {<<n>> : n \in McrsDirs}
    /\ \A p \in Existing(fs) : fs[p] = DirEnt

\* C4 (as claimed): `-folders -mrcs` in an empty directory creates exactly
\* models, controllers, routes, services and prints one success message that
\* lists them in the order models, controllers, routes, services.
C4_MessageInClaimedOrder ==
    MrcsInEmptyDir =>
        /\ OnlyTheFourDirs
        /\ out = <<[lvl |-> "success",
                    text |-> "Created folders: models, controllers, routes, services"]>>

\* C4 (amended): the same, the message listing the names in the order of the
\* flag letters m, r, c, s: models, routes, controllers, services.
C4_MessageInFlagOrder ==
    MrcsInEmptyDir =>
        /\ exitCode = 0
        /\ OnlyTheFourDirs
        /\ out = <<[lvl |-> "success",
                    text |-> "Created folders: models, routes, controllers, services"]>>

C4_Witness == MrcsInEmptyDir /\ Len(out) = 1 /\ fs[<<"routes">>] = DirEnt

\* C14 (as claimed): when the tool run by init, -p, -plugin or -backend exits
\* with a non-zero code, the command fails as a whole (it does not report
\* success and the run does not end with exit code 0), and no tool is run a
\* second time.
SingleToolCmds == {"init", "-p", "-plugin", "-backend"}
ToolFailed == \E i \in 1..Len(procs) : ExitedNonZero(procs[i])
SaidSuccess == \E i \in 1..Len(out) : out[i].lvl = "success"
C14_ToolFailureFailsCommand ==
    (exitCode # -1 /\ argv # <<>> /\ argv[1] \in SingleToolCmds /\ ToolFailed) =>
        /\ exitCode # 0
        /\ ~SaidSuccess
        /\ \A i, j \in 1..Len(procs) : procs[i].cmd = procs[j].cmd => i = j

\* C15: init, -p, -files or -plugin given without its argument prints one
\* warning and returns: nothing is written, no process is run, exit code 0.
MissingArgument ==
    /\ exitCode # -1 /\ Len(argv) = 1
    /\ argv[1] \in {"init", "-p", "-files", "-plugin"}
C15_MissingArgumentOnlyWarns ==
    MissingArgument =>
        /\ exitCode = 0
        /\ fs = preFs
        /\ procs = <<>>
        /\ Len(out) = 1 /\ out[1].lvl = "warn"

\* C15's case: -p with no package, in a directory that holds something
C15_Witness ==
    /\ MissingArgument /\ argv = <<"-p">>
    /\ out = <<[lvl |-> "warn", text |-> "Usage: decode -p pkg1 pkg2..."]>>
    /\ Existing(fs) # {}

\* C16: with no first token, or one no handler is for, the help table is
\* printed, nothing is written, no process is run and the exit code is 0;
\* a later token that is a command of its own is not run: after `-env -git`
\* only -env has acted.
HelpPrinted == out = <<[lvl |-> "help", text |-> "Decode CLI v3.0 - Commands"]>>
C16_UnknownTokenPrintsHelp ==
    /\ (exitCode # -1 /\ (argv = <<>> \/ argv[1] \notin RecognizedTokens)) =>
          /\ HelpPrinted
          /\ fs = preFs /\ procs = <<>> /\ exitCode = 0
    /\ (exitCode # -1 /\ argv = <<"-env", "-git">>) =>
          /\ out = <<[lvl |-> "success", text |-> ".env + .env.example"]>>
          /\ procs = <<>>
          /\ fs[<<".git">>] = preFs[<<".git">>]
          /\ fs[<<".gitignore">>] = preFs[<<".gitignore">>]

\* C16's case: an unknown token followed by a known one, where -git would act
C16_Witness ==
    /\ exitCode = 0 /\ argv = <<"-zzz", "-git">> /\ HelpPrinted
    /\ fs[<<".git">>].kind = "none" /\ runs = 2

\* C17: -plugin <name> with no plugins/<name>.js under the working directory
\* nor under the install directory warns "Plugin not found" and runs nothing.
PluginRun == Ran("-plugin") /\ Len(argv) >= 2
LocalPlugin == ExistsSync(preFs, PluginFile(argv[2]))
InstalledPlugin == ExistsSync(installFs, PluginFile(argv[2]))
C17_MissingPluginWarns ==
    (PluginRun /\ ~LocalPlugin /\ ~InstalledPlugin) =>
        /\ out = <<[lvl |-> "warn", text |-> "Plugin not found: " \o argv[2]]>>
        /\ procs = <<>>
        /\ fs = preFs /\ exitCode = 0

\* C17's case: the name is in neither place while another plugin is in both
C17_Witness ==
    /\ PluginRun /\ argv[2] = "missing" /\ procs = <<>>
    /\ ExistsSync(preFs, PluginFile("hello"))
    /\ ExistsSync(installFs, PluginFile("hello"))

\* C18: -plugin <name> runs the script under the working directory when it
\* is there, once, also when the install directory has one too; the one of
\* the install directory is run only when the working directory has none.
NodeCmd(dir) ==
    "node \"" \o Join(<<dir>> \o PluginFile(argv[2]), "\\") \o "\" "
        \o Join(SubSeq(argv, 3, Len(argv)), " ")
Launched == [i \in 1..Len(procs) |-> procs[i].cmd]
C18_ProjectPluginFirst ==
    PluginRun =>
        /\ LocalPlugin => Launched = <<NodeCmd(Cwd)>>
        /\ (~LocalPlugin /\ InstalledPlugin) => Launched = <<NodeCmd(InstallDir)>>
        /\ (\E i \in 1..Len(procs) : procs[i].cmd = NodeCmd(InstallDir)) => ~LocalPlugin

\* C18's case: the plugin is in both places and was run with an argument
C18_Witness ==
    /\ PluginRun /\ LocalPlugin /\ InstalledPlugin
    /\ argv = <<"-plugin", "hello", "--fast">>
    /\ Launched = <<"node \"C:\\work\\plugins\\hello.js\" --fast">>

\* C20 (as claimed): `-folders` with no further argument does what
\* `-folders -mrcs` does, under either entry file: it ends normally and
\* models, routes, controllers, services exist afterwards.
C20_NoArgumentMeansMrcs ==
    (Ran("-folders") /\ Len(argv) = 1) =>
        /\ exitCode = 0
        /\ \A n \in McrsDirs : fs[<<n>>].kind # "none"
        /\ fs = CmdFolders(preFs, <<"-folders", "-mrcs">>).fs
        /\ out = CmdFolders(preFs, <<"-folders", "-mrcs">>).out

(***************************************************************************)
(* Claims about the navigator, checked under SpecNav.                      *)
(***************************************************************************)
SubdirsOnDisk(t, p) == {q \in NavPaths : IsChildOf(q, p) /\ t[q] = "dir"}
Offered == {currentChoices[i] : i \in 1..Len(currentChoices)}
Listable(t, p) ==
    /\ p \in NavPaths /\ t[p] = "dir"
    /\ \A q \in NavPaths : IsChildOf(q, p) => t[q] # "bad"

\* C8 (as claimed): after "Go Back" from AtFolder(path) the navigator is at
\* parent(path), prompting, and offers exactly the subdirectories
\* parent(path) has on disk at that moment, each once, whatever it offered
\* when path was first entered.
C8_GoBackOffersLiveListing ==
    (lastEvent = "__back" /\ prevPath # <<>>) =>
        /\ currentPath = Dirname(prevPath)
        /\ navPc = "prompt"
        /\ Offered = SubdirsOnDisk(tree, currentPath)
        /\ Len(currentChoices) = Cardinality(Offered)

\* what does hold after "Go Back": a parent that can be listed is listed
\* afresh; one that cannot (it is gone, or statSync throws on one of its
\* entries) ends the navigator with the exception
GoBackListsDiskOrCrashes ==
    (lastEvent = "__back" /\ prevPath # <<>>) =>
        /\ currentPath = Dirname(prevPath)
        /\ IF Listable(tree, currentPath)
           THEN /\ navPc = "prompt"
                /\ Offered = SubdirsOnDisk(tree, currentPath)
                /\ Len(currentChoices) = Cardinality(Offered)
           ELSE navPc = "crashed"

\* C9: "Open Here" with a path entered invokes the action once, with that
\* path, and the navigator ends; with no path entered it prints the warning,
\* invokes nothing, and the navigator ends.  No other selection invokes the
\* action.
C9_OpenHere ==
    /\ lastEvent = "__open" =>
          /\ navPc \in {"done", "crashed"}
          /\ IF prevPath # <<>>
             THEN /\ actionCalls = <<prevPath>>
                  /\ Len(procs) >= 1
             ELSE /\ actionCalls = <<>>
                  /\ procs = <<>>
                  /\ out = <<[lvl |-> "warn", text |-> "No path selected."]>>
                  /\ navPc = "done"
    /\ lastEvent # "__open" => actionCalls = <<>>

C9_Witness ==
    /\ lastEvent = "__open" /\ prevPath = Root1 \o <<"app">>
    /\ navPc = "done" /\ actionCalls = <<Root1 \o <<"app">>>>

\* C10: "Exit", wherever the navigator is, ends it with the action not invoked
\* and no external process launched.
C10_ExitDoesNothing ==
    lastEvent = "__exit" =>
        /\ navPc = "done" /\ exitCode = 0
        /\ actionCalls = <<>>
        /\ procs = <<>>

\* C10's case: Exit inside a folder reached by a descent and a Go Back
C10_Witness ==
    /\ lastEvent = "__exit" /\ navPc = "done"
    /\ prevPath # <<>> /\ entry.from = prevPath /\ steps >= 3

\* C11: "Go Back" at the roots listing, no path entered yet, ends the
\* navigator normally: the action is not invoked, no process is launched and
\* no directory is listed.
C11_BackAtRootsEnds ==
    (lastEvent = "__back" /\ prevPath = <<>>) =>
        /\ navPc = "done" /\ exitCode = 0
        /\ currentPath = <<>>
        /\ actionCalls = <<>> /\ procs = <<>>
        /\ listed = <<>>

\* C11's case: Go Back as the first selection, with roots on offer
C11_Witness ==
    /\ lastEvent = "__back" /\ prevPath = <<>> /\ navPc = "done"
    /\ steps = 1 /\ Len(currentChoices) >= 2

\* C12 (as claimed): under a changing disk, after a descent or a Go Back
\* from a folder the navigator is still prompting (it has not aborted) and
\* currentPath is a directory that exists as it is chosen; a path that has
\* vanished or cannot be read is recovered from by listing again.
Moved == lastEvent = "descend" \/ (lastEvent = "__back" /\ prevPath # <<>>)
C12_VanishedPathIsRecoverable ==
    Moved =>
        /\ navPc = "prompt"
        /\ currentPath \in NavPaths /\ tree[currentPath] = "dir"

\* C13 (as claimed): an exception thrown by a command's action, or by an
\* action or a directory listing inside a navigator command, reaches the
\* catch of main: the message is printed through err and the process exits
\* 1; exit code 1 arises only this way.
ErrReported == out # <<>> /\ out[Len(out)].lvl = "err"
C13_ExceptionsReachTopLevelCatch ==
    /\ navPc = "crashed" => (exitCode = 1 /\ ErrReported)
    /\ exitCode = 1 => ErrReported

\* C23: once a directory has been selected currentPath is never unset, so
\* the roots listing is not entered again.  "Go Back" inside a folder, a
\* configured root included, never makes the navigator return: it moves to
\* the parent directory, which for a root lies outside the roots, and offers
\* the subdirectories the parent has on disk (a parent that cannot be listed
\* aborts the navigator instead, as under C8).  So the navigator comes to
\* offer, and "Open Here" to act on, directories outside every configured
\* root.
IsRoot(p) == \E i \in 1..Len(PROJECT_ROOTS) : PROJECT_ROOTS[i] = p
OutsideRoots(p) ==
    p # <<>> /\ \A i \in 1..Len(PROJECT_ROOTS) :
                  p # PROJECT_ROOTS[i] /\ ~IsUnder(p, PROJECT_ROOTS[i])
BackChosen == steps' = steps + 1 /\ lastEvent' = "__back"
Matches(d, title) ==
    {m \in RootIds \X {NameOrder[k] : k \in 1..Len(NameOrder)} :
        /\ d[m[1]].exists
        /\ \E e \in d[m[1]].entries : e.name = m[2] /\ e.kind = "dir"
        /\ Includes(ToLowerCase(m[2]), ToLowerCase(title))}
ExactMatches(d, title) ==
    {m \in Matches(d, title) : ToLowerCase(m[2]) = ToLowerCase(title)}
FullPath(m) == PathJoin(RootStrs[m[1]], m[2])
ListedAt(n) == CHOOSE k \in 1..Len(NameOrder) : NameOrder[k] = n
Before(m1, m2) ==
    m1[1] < m2[1] \/ (m1[1] = m2[1] /\ ListedAt(m1[2]) <= ListedAt(m2[2]))
FirstMatch(d, title) ==
    CHOOSE m \in Matches(d, title) : \A m2 \in Matches(d, title) : Before(m, m2)
FolderNameGiven == dpc = "mapped" /\ dIn.title # "" /\ ~IsAbsolute(dIn.title)

Failed(p) == p.how \in {"empty", "garbled", "nolaunch"}
BothProbesFailed == dpc = "detected" /\ Failed(dIn.explorer) /\ Failed(dIn.title)
\* a failed probe whose output still names something on disk
ExplorerOutputExists ==
    Trim(dIn.explorer.stdout) # "" /\ ExistsStr(disk, Trim(dIn.explorer.stdout))
TitleOutputMatches ==
    LET t == GetActiveVSCodeTitle(dIn.title)
    IN t # "" /\ (Matches(disk, t) # {} \/ (IsAbsolute(t) /\ ExistsStr(disk, t)))

\* C5 (as claimed): whenever both window queries fail (empty output, garbled
\* output, or the probe not launching), detectActivePath returns the working
\* directory.
C5_FailureGivesCwd ==
    BothProbesFailed => dOut = Cwd

\* C5 (amended): whenever both window queries fail, detectActivePath returns
\* (it does not raise), and what it returns is the working directory unless
\* the garbled output of the Explorer query is itself an existing path or the
\* garbled title matches a folder under a configured root; with empty output
\* or a launch failure on both it is always the working directory.
C5_FailureGivesCwdUnlessOutputHits ==
    BothProbesFailed =>
        /\ dOut # ""
        /\ (~ExplorerOutputExists /\ ~TitleOutputMatches) => dOut = Cwd
        /\ (dIn.explorer.how # "garbled" /\ dIn.title.how # "garbled") => dOut = Cwd
        /\ dOut # Cwd => (ExplorerOutputExists \/ TitleOutputMatches)

\* C5's case: both outputs garbled, neither hitting anything, roots on disk
C5_Witness ==
    /\ BothProbesFailed /\ disk[3].exists /\ disk[1].exists
    /\ dIn.explorer.how = "garbled" /\ dIn.title.how = "garbled"
    /\ ~ExplorerOutputExists /\ ~TitleOutputMatches
    /\ dOut = Cwd

\* C6: a folder name with exactly one matching folder under the configured
\* roots (one root holds it, the others hold no match) resolves to that
\* root joined with the folder's name, wherever the root is in the list.
C6_UniqueMatchResolved ==
    (FolderNameGiven /\ Cardinality(Matches(disk, dIn.title)) = 1) =>
        \A m \in Matches(disk, dIn.title) : dOut = FullPath(m)

\* C6's case: the only match is under the last root, after two roots that
\* exist and hold other entries
C6_Witness ==
    /\ FolderNameGiven /\ Cardinality(Matches(disk, dIn.title)) = 1
    /\ \A m \in Matches(disk, dIn.title) : m[1] = 3 /\ dOut = FullPath(m)
    /\ disk[1].entries # {} /\ disk[2].entries # {}

\* C7 (as claimed): with more than one matching folder under the roots, the
\* resolver returns one whose name equals the title case-insensitively if
\* any root has one, and otherwise the first match in root-iteration order.
C7_ExactMatchPreferredAcrossRoots ==
    (FolderNameGiven /\ Cardinality(Matches(disk, dIn.title)) > 1) =>
        IF ExactMatches(disk, dIn.title) # {}
        THEN \E m \in ExactMatches(disk, dIn.title) : dOut = FullPath(m)
        ELSE dOut = FullPath(FirstMatch(disk, dIn.title))

\* C19 (as claimed): -term launches a terminal, and launches it at the
\* working directory of the invoking process, whatever Explorer window or
\* editor window is open.
C19_TerminalAtCwd ==
    dpc = "term" =>
        /\ Len(procs) = 1
        /\ procs[1].cmd = "wt.exe -w 0 nt -d \"" \o Cwd \o "\""

(***************************************************************************)
(* Claims about the process helpers, checked under SpecRun.                *)
(***************************************************************************)
\* the probed command could not be launched, or it ran and failed
ProbeFailed(e) == e.how # "exit" \/ e.code # 0
\* a probe that ran, succeeded and printed nothing
NoResult == [how |-> "exit", code |-> 0, stdout |-> ""]

\* C21 (as claimed): runCapture never raises and returns the empty string
\* whenever the probed command fails, be it that it cannot be launched or
\* that it runs and ends other than with exit code 0; so at each call site
\* (the Explorer path and the editor title in detectActivePath, -killport) a
\* failed probe gives what a probe with no result gives.
C21_FailedProbeIsNoResult ==
    /\ dpc = "captured" =>
          /\ ~dOut.threw
          /\ ProbeFailed(dIn.child) => dOut.ret = ""
    /\ dpc = "probed" =>
          /\ ProbeFailed(dIn.child) =>
                dOut.ret = DetectActivePath(disk, CaptureResult(NoResult),
                                            CaptureResult(dOut.titleChild))
          /\ ProbeFailed(dOut.titleChild) =>
                dOut.ret = DetectActivePath(disk, CaptureResult(dIn.child),
                                            CaptureResult(NoResult))
    /\ dpc = "killport" =>
          /\ ~dOut.threw
          /\ ProbeFailed(dIn.child) => out = CmdKillport(argv, NoResult).out

\* C22 (as claimed): runShell and runSync return the exit code the child
\* ended with; a child that did not end with exit code 0 never yields 0; and
\* an executable that cannot be found or spawned raises instead of returning
\* a code.
C22_RealExitCodeOrLaunchFailure ==
    dpc \in {"shell", "sync"} =>
        /\ dIn.child.how = "exit" => (~dOut.threw /\ dOut.ret = dIn.child.code)
        /\ (~dOut.threw /\ ~(dIn.child.how = "exit" /\ dIn.child.code = 0)) =>
              dOut.ret # 0
        /\ dIn.child.how \in {"notfound", "noshell"} => dOut.threw

====
